---- MODULE Spec2Model ----
(***************************************************************************)
(* Model of the openweathermap publisher (openweathermap.go).              *)
(*                                                                         *)
(* The adapter has three operations that act on the publisher framework's  *)
(* registry: PublishNodes (provisioning), UpdateWeather (current weather   *)
(* cycle) and UpdateForecast (daily forecast cycle).  The registry of      *)
(* nodes and outputs is the state the adapter reads; what a cycle does is  *)
(* the sequence of calls it makes on the weather client and on the         *)
(* framework, kept in log.  The weather client's answers and the order in  *)
(* which GetAllNodes returns the nodes are inputs, kept in results and     *)
(* order.                                                                  *)
(*                                                                         *)
(* Numbers are fixed point: temperatures and wind speed in tenths, rain    *)
(* and snow of the last hour in units of 0.0001 (so that value*1000 is in  *)
(* tenths), humidity, pressure and heading in whole units.                 *)
(***************************************************************************)
EXTENDS Integers, Sequences, FiniteSets, TLC

VARIABLES
    cities,     \* WeatherApp.Cities, the configured city list
    nodes,      \* weatherPub.Nodes: sequence of [id, language]
    outputs,    \* weatherPub.Outputs: sequence of [node, type, instance]
    order,      \* what GetAllNodes returned to the latest cycle (node ids)
    results,    \* what the weather client answers per city in the latest cycle
    log,        \* client and framework calls made by the latest cycle
    lastOp      \* the operation that ran last

vars == <<cities, nodes, outputs, order, results, log, lastOp>>

-----------------------------------------------------------------------------
(* Bounds *)

MaxCities == 2
MaxDays == 2

CityNames == {"Amsterdam", "Vancouver"}
Languages == {"en", "nl"}

-----------------------------------------------------------------------------
(* Names of the program *)

CurrentWeatherInst == "current"
LastHourWeatherInst == "hour"
ForecastWeatherInst == "forecast"

PublisherNodeID == "$publisher"

IOTypeWeather == "weather"
IOTypeTemperature == "temperature"
IOTypeHumidity == "humidity"
IOTypeAtmosphericPressure == "atmosphericpressure"
IOTypeWindHeading == "windheading"
IOTypeWindSpeed == "windspeed"
IOTypeRain == "rain"
IOTypeSnow == "snow"

DefaultLanguage == "en"
NoConfig == ""

ErrCurrentWeather == "Current weather not available"
ErrDailyForecast == "Error getting the daily forecast"
ErrNoForecast == "Daily forecast not provided"

-----------------------------------------------------------------------------
(* Helpers on sequences *)

Range(s) == {s[i] : i \in 1..Len(s)}

SeqsUpTo(S, n) == UNION {[1..k -> S] : k \in 0..n}

\* Every order in which the members of S can be listed.
Orders(S) ==
    {p \in [1..Cardinality(S) -> S] : \A i, j \in 1..Cardinality(S) : p[i] = p[j] => i = j}

-----------------------------------------------------------------------------
(* The publisher framework's registry, as the adapter uses it *)

NodeIDs(ns) == {ns[i].id : i \in 1..Len(ns)}

CityNodeIDs(ns) == NodeIDs(ns) \ {PublisherNodeID}

GetNodeByID(ns, id) == ns[CHOOSE i \in 1..Len(ns) : ns[i].id = id]

\* Nodes.GetAllNodes: the registered nodes, in any order.
GetAllNodes(ns) == Orders(NodeIDs(ns))

\* Nodes.UpdateNode, called with a node made by NewNode: the node is added
\* when its id is not registered yet.  What becomes of a registered node is
\* the framework's matter: it is kept with its configuration (keep), or the
\* new node, which has no configuration yet, takes its place.
UpdateNode(ns, id, keep) ==
    IF id \notin NodeIDs(ns)
    THEN Append(ns, [id |-> id, language |-> NoConfig])
    ELSE IF keep
    THEN ns
    ELSE [i \in 1..Len(ns) |->
            IF ns[i].id = id THEN [id |-> id, language |-> NoConfig] ELSE ns[i]]

\* Nodes.UpdateNodeConfig: attaches the configuration entry; a value that was
\* configured before is kept, otherwise the entry gets its default value.
UpdateNodeConfig(ns, id, default) ==
    [i \in 1..Len(ns) |->
        IF ns[i].id = id /\ ns[i].language = NoConfig
        THEN [ns[i] EXCEPT !.language = default]
        ELSE ns[i]]

\* Outputs.NewOutput: an output is keyed by (node, type, instance).
NewOutput(os, id, type, instance) ==
    LET o == [node |-> id, type |-> type, instance |-> instance]
    IN  IF o \in Range(os) THEN os ELSE Append(os, o)

-----------------------------------------------------------------------------
(* The calls of a cycle *)

Event(op, id, type, instance, value, list) ==
    [op |-> op, node |-> id, type |-> type, instance |-> instance,
     value |-> value, list |-> list]

\* GetCurrentWeather(apikey, node.ID, language), GetDailyForecast(...)
FetchEvent(op, id, language) == Event(op, id, "", "", language, <<>>)
\* weatherPub.SetErrorStatus(node, msg)
StatusEvent(id, msg) == Event("SetErrorStatus", id, "", "", msg, <<>>)
\* outputHistory.UpdateOutputValue(node, type, instance, value)
ValueEvent(id, type, instance, value) ==
    Event("UpdateOutputValue", id, type, instance, value, <<>>)
\* weatherPub.UpdateForecast(node, type, instance, list)
ForecastEvent(id, type, instance, list) ==
    Event("UpdateForecast", id, type, instance, "", list)

-----------------------------------------------------------------------------
(* PublishNodes *)

\* CityOutputs with the last NewOutput call left out.
CityOutputsShort ==
    << <<IOTypeWeather, CurrentWeatherInst>>,
       <<IOTypeTemperature, CurrentWeatherInst>>,
       <<IOTypeHumidity, CurrentWeatherInst>>,
       <<IOTypeAtmosphericPressure, CurrentWeatherInst>>,
       <<IOTypeWindHeading, CurrentWeatherInst>>,
       <<IOTypeWindSpeed, CurrentWeatherInst>>,
       <<IOTypeRain, LastHourWeatherInst>>,
       <<IOTypeSnow, LastHourWeatherInst>>,
       <<IOTypeWeather, ForecastWeatherInst>>,
       <<IOTypeTemperature, "max">> >>

\* The outputs created for each city, in the order of the calls.
CityOutputs ==
    << <<IOTypeWeather, CurrentWeatherInst>>,
       <<IOTypeTemperature, CurrentWeatherInst>>,
       <<IOTypeHumidity, CurrentWeatherInst>>,
       <<IOTypeAtmosphericPressure, CurrentWeatherInst>>,
       <<IOTypeWindHeading, CurrentWeatherInst>>,
       <<IOTypeWindSpeed, CurrentWeatherInst>>,
       <<IOTypeRain, LastHourWeatherInst>>,
       <<IOTypeSnow, LastHourWeatherInst>>,
       <<IOTypeWeather, ForecastWeatherInst>>,
       <<IOTypeTemperature, "max">>,
       <<IOTypeAtmosphericPressure, "min">> >>

RECURSIVE NewOutputs(_, _, _, _)
NewOutputs(os, id, list, k) ==
    IF k > Len(list) THEN os
    ELSE NewOutputs(NewOutput(os, id, list[k][1], list[k][2]), id, list, k + 1)

\* PublishCity registering the node without looking for the one it updates.
PublishCityAppend(reg, city, keep) ==
    [nodes |-> Append(reg.nodes, [id |-> city, language |-> DefaultLanguage]),
     outputs |-> NewOutputs(reg.outputs, city, CityOutputs, 1)]

\* One iteration of the loop over the cities.
PublishCity(reg, city, keep) ==
    [nodes |-> UpdateNodeConfig(UpdateNode(reg.nodes, city, keep), city, DefaultLanguage),
     outputs |-> NewOutputs(reg.outputs, city, CityOutputs, 1)]

RECURSIVE PublishLoop(_, _, _, _)
PublishLoop(reg, cs, i, keep) ==
    IF i > Len(cs) THEN reg
    ELSE PublishLoop(PublishCity(reg, cs[i], keep), cs, i + 1, keep)

PublishNodes(keep) ==
    LET reg == PublishLoop([nodes |-> nodes, outputs |-> outputs], cities, 1, keep)
    IN  /\ nodes' = reg.nodes
        /\ outputs' = reg.outputs
        /\ order' = <<>>
        /\ results' = <<>>
        /\ log' = <<>>
        /\ lastOp' = "PublishNodes"
        /\ UNCHANGED cities

\* The framework applies a configured language to a city node.
SetNodeConfigValue(id, language) ==
    /\ id \in CityNodeIDs(nodes)
    /\ nodes' = [i \in 1..Len(nodes) |->
                    IF nodes[i].id = id
                    THEN [nodes[i] EXCEPT !.language = language]
                    ELSE nodes[i]]
    /\ order' = <<>>
    /\ results' = <<>>
    /\ log' = <<>>
    /\ lastOp' = "SetNodeConfigValue"
    /\ UNCHANGED <<cities, outputs>>

-----------------------------------------------------------------------------
(* Formatting *)

\* fmt.Sprintf("%d", n) and fmt.Sprintf("%.0f", x) for a whole number
FormatInt(n) == IF n < 0 THEN "-" \o ToString(-n) ELSE ToString(n)

\* fmt.Sprintf("%.1f", x) for x given in tenths
FormatTenths(t) ==
    IF t < 0
    THEN "-" \o ToString((-t) \div 10) \o "." \o ToString((-t) % 10)
    ELSE ToString(t \div 10) \o "." \o ToString(t % 10)

-----------------------------------------------------------------------------
(* The weather client: GetCurrentWeather *)

NilWeather ==
    [Weather |-> <<>>,
     Main |-> [Temperature |-> 0, Humidity |-> 0, Pressure |-> 0],
     Wind |-> [Speed |-> 0, Heading |-> 0],
     Rain |-> [LastHour |-> 0],
     Snow |-> [LastHour |-> 0]]

\* Responses of the current-weather service.
CurrentWeatherSamples ==
    { [Weather |-> <<>>,
       Main |-> [Temperature |-> 2843, Humidity |-> 81, Pressure |-> 1013],
       Wind |-> [Speed |-> 41, Heading |-> 270],
       Rain |-> [LastHour |-> 20],
       Snow |-> [LastHour |-> 0]],
      [Weather |-> <<[Description |-> "snow"], [Description |-> "mist"]>>,
       Main |-> [Temperature |-> 2701, Humidity |-> 100, Pressure |-> 998],
       Wind |-> [Speed |-> 7, Heading |-> 0],
       Rain |-> [LastHour |-> 0],
       Snow |-> [LastHour |-> 13]] }

\* GetCurrentWeather returns a response or an error.
CurrentWeatherResults ==
    {[err |-> TRUE, weather |-> NilWeather]}
        \cup {[err |-> FALSE, weather |-> w] : w \in CurrentWeatherSamples}

-----------------------------------------------------------------------------
(* UpdateWeather *)

\* WeatherDescription taking the last entry of the list.
WeatherDescriptionLast(list) ==
    IF Len(list) > 0 THEN list[Len(list)].Description ELSE ""

WeatherDescription(list) ==
    IF Len(list) > 0 THEN list[1].Description ELSE ""

\* The values published for one response, in the order of the calls.
WeatherValues(id, w) ==
    << ValueEvent(id, IOTypeWeather, CurrentWeatherInst, WeatherDescription(w.Weather)),
       ValueEvent(id, IOTypeTemperature, CurrentWeatherInst, FormatTenths(w.Main.Temperature)),
       ValueEvent(id, IOTypeHumidity, CurrentWeatherInst, FormatInt(w.Main.Humidity)),
       ValueEvent(id, IOTypeAtmosphericPressure, CurrentWeatherInst, FormatInt(w.Main.Pressure)),
       ValueEvent(id, IOTypeWindSpeed, CurrentWeatherInst, FormatTenths(w.Wind.Speed)),
       ValueEvent(id, IOTypeWindHeading, CurrentWeatherInst, FormatInt(w.Wind.Heading)),
       ValueEvent(id, IOTypeRain, LastHourWeatherInst, FormatTenths(w.Rain.LastHour)),
       ValueEvent(id, IOTypeSnow, LastHourWeatherInst, FormatTenths(w.Snow.LastHour)) >>

\* UpdateWeatherNode without the return after a failed fetch: the outputs are
\* written from the absent response and the loop goes on.
UpdateWeatherNodeNoReturn(ns, id, r) ==
    LET language == GetNodeByID(ns, id).language
        fetch == <<FetchEvent("GetCurrentWeather", id, language)>>
    IN  IF r.err
        THEN [calls |-> fetch \o <<StatusEvent(id, ErrCurrentWeather)>>
                              \o WeatherValues(id, r.weather),
              return |-> FALSE]
        ELSE [calls |-> fetch \o WeatherValues(id, r.weather), return |-> FALSE]

\* UpdateWeatherNode going on with the next node after a failed fetch.
UpdateWeatherNodeContinue(ns, id, r) ==
    LET language == GetNodeByID(ns, id).language
        fetch == <<FetchEvent("GetCurrentWeather", id, language)>>
    IN  IF r.err
        THEN [calls |-> fetch \o <<StatusEvent(id, ErrCurrentWeather)>>, return |-> FALSE]
        ELSE [calls |-> fetch \o WeatherValues(id, r.weather), return |-> FALSE]

\* The body of the loop for one city node: the calls it makes, and whether
\* the loop goes on.
UpdateWeatherNode(ns, id, r) ==
    LET language == GetNodeByID(ns, id).language
        fetch == <<FetchEvent("GetCurrentWeather", id, language)>>
    IN  IF r.err
        THEN [calls |-> fetch \o <<StatusEvent(id, ErrCurrentWeather)>>, return |-> TRUE]
        ELSE [calls |-> fetch \o WeatherValues(id, r.weather), return |-> FALSE]

\* UpdateWeatherLoop leaving the loop at the publisher node.
RECURSIVE UpdateWeatherLoopBreak(_, _, _, _, _)
UpdateWeatherLoopBreak(ns, ord, res, i, calls) ==
    IF i > Len(ord) THEN calls
    ELSE IF ord[i] # PublisherNodeID
    THEN LET body == UpdateWeatherNode(ns, ord[i], res[ord[i]])
         IN  IF body.return
             THEN calls \o body.calls
             ELSE UpdateWeatherLoopBreak(ns, ord, res, i + 1, calls \o body.calls)
    ELSE calls

\* The loop over GetAllNodes, from the i-th node on, with the calls made so far.
RECURSIVE UpdateWeatherLoop(_, _, _, _, _)
UpdateWeatherLoop(ns, ord, res, i, calls) ==
    IF i > Len(ord) THEN calls
    ELSE IF ord[i] # PublisherNodeID
    THEN LET body == UpdateWeatherNode(ns, ord[i], res[ord[i]])
         IN  IF body.return
             THEN calls \o body.calls
             ELSE UpdateWeatherLoop(ns, ord, res, i + 1, calls \o body.calls)
    ELSE UpdateWeatherLoop(ns, ord, res, i + 1, calls)

UpdateWeather(ord, res) ==
    /\ log' = UpdateWeatherLoop(nodes, ord, res, 1, <<>>)
    /\ order' = ord
    /\ results' = res
    /\ lastOp' = "UpdateWeather"
    /\ UNCHANGED <<cities, nodes, outputs>>

-----------------------------------------------------------------------------
(* The weather client: GetDailyForecast *)

\* The i-th day of a daily forecast of the service.
ForecastDay(i) ==
    [Date |-> 1600000000 + 86400 * i,
     Weather |-> IF i % 2 = 1
                 THEN <<[Description |-> "rain"], [Description |-> "wind"]>>
                 ELSE <<>>,
     Temp |-> [Max |-> 180 + 13 * i, Min |-> 95 - 40 * i]]

NilForecast == [err |-> TRUE, isNil |-> TRUE, List |-> <<>>]

\* GetDailyForecast returns an error, a forecast without a list, or a
\* forecast with a list of days, which may have no entries.
DailyForecastResults ==
    {NilForecast, [err |-> FALSE, isNil |-> TRUE, List |-> <<>>]}
        \cup {[err |-> FALSE, isNil |-> FALSE, List |-> [i \in 1..d |-> ForecastDay(i)]] :
                d \in 0..MaxDays}

-----------------------------------------------------------------------------
(* UpdateForecast *)

\* time.Unix(int64(forecast.Date), 0)
TimeUnix(sec) == [sec |-> sec, nsec |-> 0]

HistoryValue(timestamp, value) == [Timestamp |-> timestamp, Value |-> value]

\* One iteration of the loop over dailyForecast.List.
AppendForecast(lists, forecast) ==
    LET timestamp == TimeUnix(forecast.Date)
        weatherDescription == WeatherDescription(forecast.Weather)
        weatherList == Append(lists.weatherList, HistoryValue(timestamp, weatherDescription))
        maxTempList == Append(lists.maxTempList,
                              HistoryValue(timestamp, FormatTenths(forecast.Temp.Max)))
        minTempList == Append(maxTempList,
                              HistoryValue(timestamp, FormatTenths(forecast.Temp.Min)))
    IN  [weatherList |-> weatherList, maxTempList |-> maxTempList,
         minTempList |-> minTempList]

RECURSIVE ForecastLists(_, _, _)
ForecastLists(lists, days, k) ==
    IF k > Len(days) THEN lists
    ELSE ForecastLists(AppendForecast(lists, days[k]), days, k + 1)

\* The body of the loop for one city node.
UpdateForecastNode(ns, id, r) ==
    LET language == GetNodeByID(ns, id).language
        fetch == <<FetchEvent("GetDailyForecast", id, language)>>
        lists == ForecastLists([weatherList |-> <<>>, maxTempList |-> <<>>,
                                minTempList |-> <<>>], r.List, 1)
    IN  IF r.err
        THEN [calls |-> fetch \o <<StatusEvent(id, ErrDailyForecast)>>, return |-> TRUE]
        ELSE IF r.isNil
        THEN [calls |-> fetch \o <<StatusEvent(id, ErrNoForecast)>>, return |-> TRUE]
        ELSE [calls |-> fetch \o
                << ForecastEvent(id, IOTypeWeather, ForecastWeatherInst, lists.weatherList),
                   ForecastEvent(id, IOTypeTemperature, "max", lists.maxTempList),
                   ForecastEvent(id, IOTypeTemperature, "min", lists.minTempList) >>,
              return |-> FALSE]

RECURSIVE UpdateForecastLoop(_, _, _, _, _)
UpdateForecastLoop(ns, ord, res, i, calls) ==
    IF i > Len(ord) THEN calls
    ELSE IF ord[i] # PublisherNodeID
    THEN LET body == UpdateForecastNode(ns, ord[i], res[ord[i]])
         IN  IF body.return
             THEN calls \o body.calls
             ELSE UpdateForecastLoop(ns, ord, res, i + 1, calls \o body.calls)
    ELSE UpdateForecastLoop(ns, ord, res, i + 1, calls)

UpdateForecast(ord, res) ==
    /\ log' = UpdateForecastLoop(nodes, ord, res, 1, <<>>)
    /\ order' = ord
    /\ results' = res
    /\ lastOp' = "UpdateForecast"
    /\ UNCHANGED <<cities, nodes, outputs>>

-----------------------------------------------------------------------------
(* The program *)

\* NewWeatherApp, the configuration loaded, and the publisher with its own node.
Init ==
    /\ cities \in SeqsUpTo(CityNames, MaxCities)
    /\ nodes = <<[id |-> PublisherNodeID, language |-> NoConfig]>>
    /\ outputs = <<>>
    /\ order = <<>>
    /\ results = <<>>
    /\ log = <<>>
    /\ lastOp = "NewWeatherApp"

Next ==
    \/ \E keep \in BOOLEAN : PublishNodes(keep)
    \/ \E id \in CityNames, language \in Languages : SetNodeConfigValue(id, language)
    \/ \E ord \in GetAllNodes(nodes), res \in [CityNodeIDs(nodes) -> CurrentWeatherResults] :
            UpdateWeather(ord, res)
    \/ \E ord \in GetAllNodes(nodes), res \in [CityNodeIDs(nodes) -> DailyForecastResults] :
            UpdateForecast(ord, res)

Spec == Init /\ [][Next]_vars

-----------------------------------------------------------------------------------------------------------------------------------------------------
(* A run that provisions once and then repeats UpdateWeather against a      *)
(* service that keeps failing for the cities it failed for, with            *)
(* GetAllNodes returning the same order every time.                         *)

PublishNodesAtStart ==
    /\ lastOp = "NewWeatherApp"
    /\ \E keep \in BOOLEAN : PublishNodes(keep)

UpdateWeatherAgain ==
    \E ord \in GetAllNodes(nodes), res \in [CityNodeIDs(nodes) -> CurrentWeatherResults] :
        /\ lastOp = "UpdateWeather" =>
            /\ ord = order
            /\ \A id \in CityNodeIDs(nodes) : results[id].err => res[id].err
        /\ UpdateWeather(ord, res)

NextRerun ==
    \/ PublishNodesAtStart
    \/ UpdateWeatherAgain

SpecRerun == Init /\ [][NextRerun]_vars

-----------------------------------------------------------------------------
(* Vocabulary of the properties *)

Cycle == lastOp \in {"UpdateWeather", "UpdateForecast"}

Pos(id) == CHOOSE i \in 1..Len(order) : order[i] = id
Before(a, b) == Pos(a) < Pos(b)

Calls(op, id) == {i \in 1..Len(log) : log[i].op = op /\ log[i].node = id}
CallsOn(id) == {i \in 1..Len(log) : log[i].node = id}

Fetched(id) ==
    Calls("GetCurrentWeather", id) \cup Calls("GetDailyForecast", id) # {}
Statuses(id) == {log[i].value : i \in Calls("SetErrorStatus", id)}
Written(id) == {<<log[i].type, log[i].instance>> : i \in Calls("UpdateOutputValue", id)}
Forecasts(id) == {<<log[i].type, log[i].instance>> : i \in Calls("UpdateForecast", id)}

Cities == CityNodeIDs(nodes)

\* The first city, in the order of the cycle, whose fetch fails.
FirstFailing(id) ==
    /\ results[id].err
    /\ \A m \in Cities : Before(m, id) => ~results[m].err

OutputsOf(id) ==
    {<<outputs[i].type, outputs[i].instance>> :
        i \in {j \in 1..Len(outputs) : outputs[j].node = id}}

Language(ns, id) == GetNodeByID(ns, id).language

Provisioned == \A i \in 1..Len(cities) : cities[i] \in NodeIDs(nodes)

-----------------------------------------------------------------------------
(* Properties *)

\* C1: in an UpdateWeather cycle, the first city whose fetch fails gets the
\* status "Current weather not available" and none of its outputs written;
\* no city after it in the order of the cycle is fetched, written or given a
\* status; exactly the cities before it have their outputs written.
C1_FailedFetchAbortsCycle ==
    lastOp = "UpdateWeather" =>
        \A id \in Cities : FirstFailing(id) =>
            /\ Fetched(id)
            /\ Statuses(id) = {ErrCurrentWeather}
            /\ Written(id) = {}
            /\ \A m \in Cities : Before(id, m) => CallsOn(m) = {}
            /\ \A m \in Cities : Before(m, id) =>
                   Cardinality(Written(m)) = 8 /\ Statuses(m) = {}
            /\ {m \in Cities : Written(m) # {}} = {m \in Cities : Before(m, id)}

\* C1 witness: a cycle over two cities in which the second one fails.
C1_Witness ==
    /\ lastOp = "UpdateWeather"
    /\ \E id, m \in Cities :
          /\ FirstFailing(id)
          /\ Before(m, id)
          /\ Written(m) # {}
          /\ Statuses(id) # {}

\* C2 as stated: once provisioned, there are as many city nodes as the
\* city list has entries, each with eleven outputs.
C2_NodePerListEntry ==
    lastOp = "PublishNodes" =>
        /\ Len(nodes) - 1 = Len(cities)
        /\ \A id \in Cities : Cardinality(OutputsOf(id)) = 11

\* C2 amended: once provisioned, there is exactly one city node per distinct
\* city name of the list, and each city node owns exactly eleven outputs, the
\* same (type, instance) pairs for every city, none of them twice, and the
\* publisher node owns none.
C2_NodePerDistinctCity ==
    lastOp = "PublishNodes" =>
        /\ Len(nodes) - 1 = Cardinality(Range(cities))
        /\ Cities = Range(cities)
        /\ \A id \in Cities : Cardinality(OutputsOf(id)) = 11
        /\ \A id, m \in Cities : OutputsOf(id) = OutputsOf(m)
        /\ Len(outputs) = 11 * Cardinality(Cities)
        /\ OutputsOf(PublisherNodeID) = {}

\* C2 witness: provisioned from a list that names a city twice.
C2_Witness ==
    /\ lastOp = "PublishNodes"
    /\ Len(cities) = 2
    /\ cities[1] = cities[2]
    /\ Cities = {cities[1]}

\* C3: PublishNodes on a registry that is already provisioned leaves the
\* nodes and the outputs as they are: nothing added, removed or duplicated.
C3_PublishNodesIdempotent ==
    [][(lastOp' = "PublishNodes" /\ Provisioned) =>
            /\ NodeIDs(nodes') = NodeIDs(nodes)
            /\ Len(nodes') = Len(nodes)
            /\ Range(outputs') = Range(outputs)
            /\ Len(outputs') = Len(outputs)]_vars

\* C3 witness: PublishNodes has run again after both cities were configured
\* with a language of their own.
C3_Witness ==
    /\ lastOp = "PublishNodes"
    /\ Cardinality(Cities) = 2
    /\ \A id \in Cities : Language(nodes, id) = "nl"

\* C5: in an UpdateForecast cycle, a city whose fetch fails or returns no
\* list or a list without entries gets an error status, and no forecast is
\* issued for it or for any city after it.
C5_EmptyForecastAborts ==
    lastOp = "UpdateForecast" =>
        \A id \in Cities :
            (Fetched(id) /\ (results[id].err \/ results[id].isNil
                                \/ Len(results[id].List) = 0)) =>
                /\ Statuses(id) # {}
                /\ Forecasts(id) = {}
                /\ \A m \in Cities : Before(id, m) => CallsOn(m) = {}

\* The list a forecast call was given.
ForecastList(id, type, instance) ==
    log[CHOOSE i \in Calls("UpdateForecast", id) :
            log[i].type = type /\ log[i].instance = instance].list

\* C6: a successful fetch of D days hands over three lists of D entries,
\* under (weather, forecast), (temperature, max) and (temperature, min), the
\* i-th entry with the i-th day's timestamp and its description, maximum
\* and minimum temperature.
C6_ThreeParallelLists ==
    lastOp = "UpdateForecast" =>
        \A id \in Cities :
            (Fetched(id) /\ ~results[id].err /\ ~results[id].isNil) =>
                LET days == results[id].List
                    Entries(Val(_)) ==
                        [i \in 1..Len(days) |->
                            [Timestamp |-> [sec |-> days[i].Date, nsec |-> 0],
                             Value |-> Val(days[i])]]
                    Desc(d) == IF d.Weather = <<>> THEN "" ELSE d.Weather[1].Description
                    Max(d) == FormatTenths(d.Temp.Max)
                    Min(d) == FormatTenths(d.Temp.Min)
                IN  /\ Forecasts(id) = {<<"weather", "forecast">>,
                                        <<"temperature", "max">>,
                                        <<"temperature", "min">>}
                    /\ ForecastList(id, "weather", "forecast") = Entries(Desc)
                    /\ ForecastList(id, "temperature", "max") = Entries(Max)
                    /\ ForecastList(id, "temperature", "min") = Entries(Min)

\* C7: for a successful fetch the value written to (weather, current) is the
\* description of the first entry of the response's list, or the empty string
\* when the list is empty, and all eight outputs of the node are written.
C7_FirstDescriptionOrEmpty ==
    lastOp = "UpdateWeather" =>
        \A id \in Cities :
            (Fetched(id) /\ ~results[id].err) =>
                LET list == results[id].weather.Weather
                    written == {log[i].value :
                                   i \in {j \in Calls("UpdateOutputValue", id) :
                                            log[j].type = "weather"
                                            /\ log[j].instance = "current"}}
                IN  /\ written = {IF list = <<>> THEN "" ELSE Head(list).Description}
                    /\ Cardinality(Written(id)) = 8
                    /\ Statuses(id) = {}

\* C7 witness: a response without descriptions was published.
C7_Witness ==
    /\ lastOp = "UpdateWeather"
    /\ \E id \in Cities :
          /\ Fetched(id)
          /\ ~results[id].err
          /\ results[id].weather.Weather = <<>>
          /\ Cardinality(Written(id)) = 8

\* C8: a cycle makes no call for the publisher node, and every other node of
\* the registry is fetched unless a node before it got an error status.
C8_PublisherSkipped ==
    Cycle =>
        /\ Range(order) = NodeIDs(nodes)
        /\ CallsOn(PublisherNodeID) = {}
        /\ \A id \in Cities :
              Fetched(id) \/ \E m \in Cities : Before(m, id) /\ Statuses(m) # {}

\* C8 witness: the publisher node came between two cities, both fetched.
C8_Witness ==
    /\ Cycle
    /\ Len(order) = 3
    /\ order[2] = PublisherNodeID
    /\ Fetched(order[1])
    /\ Fetched(order[3])

\* C9: every output a cycle writes a value or a forecast to is an output
\* that PublishNodes created on that node.
C9_WritesOnlyProvisioned ==
    Cycle =>
        \A i \in 1..Len(log) :
            log[i].op \in {"UpdateOutputValue", "UpdateForecast"} =>
                [node |-> log[i].node, type |-> log[i].type,
                 instance |-> log[i].instance] \in Range(outputs)

\* What an UpdateWeather cycle did, given the first city f whose fetch failed:
\* fetches, the outputs of the cities before f, and the error status of f.
OnlyUpTo(f) ==
    \A i \in 1..Len(log) :
        \/ log[i].op = "GetCurrentWeather"
        \/ log[i] = StatusEvent(f, ErrCurrentWeather)
        \/ log[i].op = "UpdateOutputValue" /\ Before(log[i].node, f)

\* C10 as stated: when the cycle is run again with the same order and a city
\* whose fetch keeps failing, no city after it has an output updated, and all
\* the cycle does is set the error status of that city.
C10_OnlyStatusOfFailing ==
    [][(lastOp = "UpdateWeather" /\ lastOp' = "UpdateWeather") =>
            \A id \in Cities : results[id].err =>
                /\ \A m \in Cities : Before(id, m) => (Written(m))' = {}
                /\ \E f \in Cities :
                      /\ (FirstFailing(f))'
                      /\ f = id \/ Before(f, id)
                      /\ \A i \in 1..Len(log') :
                            \/ log'[i].op = "GetCurrentWeather"
                            \/ log'[i] = StatusEvent(f, ErrCurrentWeather)]_vars

\* C10 amended: when the cycle is run again with the same order and a city
\* whose fetch keeps failing, no city after it is fetched, written or given a
\* status; all the cycle does is write the outputs of the cities before the
\* first city whose fetch fails and set the error status of that one city.
C10_NoProgressPastFailing ==
    [][(lastOp = "UpdateWeather" /\ lastOp' = "UpdateWeather") =>
            \A id \in Cities : results[id].err =>
                /\ \A m \in Cities : Before(id, m) => (CallsOn(m))' = {}
                /\ \E f \in Cities :
                      /\ (FirstFailing(f))'
                      /\ f = id \/ Before(f, id)
                      /\ (Statuses(f))' = {ErrCurrentWeather}
                      /\ (OnlyUpTo(f))']_vars

\* C10 witness: a cycle in which the second city of the order fails and the
\* first is written.
C10_Witness ==
    /\ lastOp = "UpdateWeather"
    /\ \E id, m \in Cities :
          /\ results[id].err
          /\ ~results[m].err
          /\ Before(m, id)
          /\ Cardinality(Written(m)) = 8
          /\ CallsOn(id) # {}
====
